---- MODULE Spec2Model ----
(***************************************************************************)
(* A model of srt_adjuster.py: the offset parser                           *)
(* (calculate_adjustment_milliseconds), the time-code adjuster             *)
(* (adjust_time_code), the line transformer (process_srt_file) and the     *)
(* pipeline of main.                                                       *)
(*                                                                         *)
(* A Python str is a sequence of characters, so that parsing, pattern      *)
(* matching and formatting are computed character by character.  An ASCII  *)
(* character is the one-character string of itself; a character outside    *)
(* ASCII is the string of its Python escape, a backslash included:         *)
(* U+00A0 is "\\xa0", U+0663 is "\\u0663" and U+1D7CE is "\\U0001d7ce"      *)
(* (c.encode("unicode_escape") in Python).  The patterns are str patterns, *)
(* so \d is every Unicode decimal digit, and int() reads each of them.     *)
(* A call ends in [kind |-> "return", value |-> v], in                     *)
(* [kind |-> "exit", value |-> message] (sys.exit) or in                   *)
(* [kind |-> "raise", value |-> exception] (an uncaught exception); the    *)
(* process may also end in [kind |-> "unflushed", value |-> exception],    *)
(* main having returned and the flush of stdout at exit having failed.     *)
(***************************************************************************)
EXTENDS Integers, Sequences, FiniteSets, TLC

----------------------------------------------------------------------------
(* Characters, int() and the format specs {:02} / {:03}                    *)

\* the digits str() and the format specs write
AsciiDigits == <<"0", "1", "2", "3", "4", "5", "6", "7", "8", "9">>

\* the 660 decimal digits of Unicode (category Nd), by value:
\* DigitChars[v + 1] holds the 66 characters that \d matches and int()
\* reads as v
DigitChars ==
    <<
      { "0", "\\u0660", "\\u06f0", "\\u07c0", "\\u0966", "\\u09e6",
        "\\u0a66", "\\u0ae6", "\\u0b66", "\\u0be6", "\\u0c66", "\\u0ce6",
        "\\u0d66", "\\u0de6", "\\u0e50", "\\u0ed0", "\\u0f20", "\\u1040",
        "\\u1090", "\\u17e0", "\\u1810", "\\u1946", "\\u19d0", "\\u1a80",
        "\\u1a90", "\\u1b50", "\\u1bb0", "\\u1c40", "\\u1c50", "\\ua620",
        "\\ua8d0", "\\ua900", "\\ua9d0", "\\ua9f0", "\\uaa50", "\\uabf0",
        "\\uff10", "\\U000104a0", "\\U00010d30", "\\U00011066",
        "\\U000110f0", "\\U00011136", "\\U000111d0", "\\U000112f0",
        "\\U00011450", "\\U000114d0", "\\U00011650", "\\U000116c0",
        "\\U00011730", "\\U000118e0", "\\U00011950", "\\U00011c50",
        "\\U00011d50", "\\U00011da0", "\\U00016a60", "\\U00016ac0",
        "\\U00016b50", "\\U0001d7ce", "\\U0001d7d8", "\\U0001d7e2",
        "\\U0001d7ec", "\\U0001d7f6", "\\U0001e140", "\\U0001e2f0",
        "\\U0001e950", "\\U0001fbf0" },
      { "1", "\\u0661", "\\u06f1", "\\u07c1", "\\u0967", "\\u09e7",
        "\\u0a67", "\\u0ae7", "\\u0b67", "\\u0be7", "\\u0c67", "\\u0ce7",
        "\\u0d67", "\\u0de7", "\\u0e51", "\\u0ed1", "\\u0f21", "\\u1041",
        "\\u1091", "\\u17e1", "\\u1811", "\\u1947", "\\u19d1", "\\u1a81",
        "\\u1a91", "\\u1b51", "\\u1bb1", "\\u1c41", "\\u1c51", "\\ua621",
        "\\ua8d1", "\\ua901", "\\ua9d1", "\\ua9f1", "\\uaa51", "\\uabf1",
        "\\uff11", "\\U000104a1", "\\U00010d31", "\\U00011067",
        "\\U000110f1", "\\U00011137", "\\U000111d1", "\\U000112f1",
        "\\U00011451", "\\U000114d1", "\\U00011651", "\\U000116c1",
        "\\U00011731", "\\U000118e1", "\\U00011951", "\\U00011c51",
        "\\U00011d51", "\\U00011da1", "\\U00016a61", "\\U00016ac1",
        "\\U00016b51", "\\U0001d7cf", "\\U0001d7d9", "\\U0001d7e3",
        "\\U0001d7ed", "\\U0001d7f7", "\\U0001e141", "\\U0001e2f1",
        "\\U0001e951", "\\U0001fbf1" },
      { "2", "\\u0662", "\\u06f2", "\\u07c2", "\\u0968", "\\u09e8",
        "\\u0a68", "\\u0ae8", "\\u0b68", "\\u0be8", "\\u0c68", "\\u0ce8",
        "\\u0d68", "\\u0de8", "\\u0e52", "\\u0ed2", "\\u0f22", "\\u1042",
        "\\u1092", "\\u17e2", "\\u1812", "\\u1948", "\\u19d2", "\\u1a82",
        "\\u1a92", "\\u1b52", "\\u1bb2", "\\u1c42", "\\u1c52", "\\ua622",
        "\\ua8d2", "\\ua902", "\\ua9d2", "\\ua9f2", "\\uaa52", "\\uabf2",
        "\\uff12", "\\U000104a2", "\\U00010d32", "\\U00011068",
        "\\U000110f2", "\\U00011138", "\\U000111d2", "\\U000112f2",
        "\\U00011452", "\\U000114d2", "\\U00011652", "\\U000116c2",
        "\\U00011732", "\\U000118e2", "\\U00011952", "\\U00011c52",
        "\\U00011d52", "\\U00011da2", "\\U00016a62", "\\U00016ac2",
        "\\U00016b52", "\\U0001d7d0", "\\U0001d7da", "\\U0001d7e4",
        "\\U0001d7ee", "\\U0001d7f8", "\\U0001e142", "\\U0001e2f2",
        "\\U0001e952", "\\U0001fbf2" },
      { "3", "\\u0663", "\\u06f3", "\\u07c3", "\\u0969", "\\u09e9",
        "\\u0a69", "\\u0ae9", "\\u0b69", "\\u0be9", "\\u0c69", "\\u0ce9",
        "\\u0d69", "\\u0de9", "\\u0e53", "\\u0ed3", "\\u0f23", "\\u1043",
        "\\u1093", "\\u17e3", "\\u1813", "\\u1949", "\\u19d3", "\\u1a83",
        "\\u1a93", "\\u1b53", "\\u1bb3", "\\u1c43", "\\u1c53", "\\ua623",
        "\\ua8d3", "\\ua903", "\\ua9d3", "\\ua9f3", "\\uaa53", "\\uabf3",
        "\\uff13", "\\U000104a3", "\\U00010d33", "\\U00011069",
        "\\U000110f3", "\\U00011139", "\\U000111d3", "\\U000112f3",
        "\\U00011453", "\\U000114d3", "\\U00011653", "\\U000116c3",
        "\\U00011733", "\\U000118e3", "\\U00011953", "\\U00011c53",
        "\\U00011d53", "\\U00011da3", "\\U00016a63", "\\U00016ac3",
        "\\U00016b53", "\\U0001d7d1", "\\U0001d7db", "\\U0001d7e5",
        "\\U0001d7ef", "\\U0001d7f9", "\\U0001e143", "\\U0001e2f3",
        "\\U0001e953", "\\U0001fbf3" },
      { "4", "\\u0664", "\\u06f4", "\\u07c4", "\\u096a", "\\u09ea",
        "\\u0a6a", "\\u0aea", "\\u0b6a", "\\u0bea", "\\u0c6a", "\\u0cea",
        "\\u0d6a", "\\u0dea", "\\u0e54", "\\u0ed4", "\\u0f24", "\\u1044",
        "\\u1094", "\\u17e4", "\\u1814", "\\u194a", "\\u19d4", "\\u1a84",
        "\\u1a94", "\\u1b54", "\\u1bb4", "\\u1c44", "\\u1c54", "\\ua624",
        "\\ua8d4", "\\ua904", "\\ua9d4", "\\ua9f4", "\\uaa54", "\\uabf4",
        "\\uff14", "\\U000104a4", "\\U00010d34", "\\U0001106a",
        "\\U000110f4", "\\U0001113a", "\\U000111d4", "\\U000112f4",
        "\\U00011454", "\\U000114d4", "\\U00011654", "\\U000116c4",
        "\\U00011734", "\\U000118e4", "\\U00011954", "\\U00011c54",
        "\\U00011d54", "\\U00011da4", "\\U00016a64", "\\U00016ac4",
        "\\U00016b54", "\\U0001d7d2", "\\U0001d7dc", "\\U0001d7e6",
        "\\U0001d7f0", "\\U0001d7fa", "\\U0001e144", "\\U0001e2f4",
        "\\U0001e954", "\\U0001fbf4" },
      { "5", "\\u0665", "\\u06f5", "\\u07c5", "\\u096b", "\\u09eb",
        "\\u0a6b", "\\u0aeb", "\\u0b6b", "\\u0beb", "\\u0c6b", "\\u0ceb",
        "\\u0d6b", "\\u0deb", "\\u0e55", "\\u0ed5", "\\u0f25", "\\u1045",
        "\\u1095", "\\u17e5", "\\u1815", "\\u194b", "\\u19d5", "\\u1a85",
        "\\u1a95", "\\u1b55", "\\u1bb5", "\\u1c45", "\\u1c55", "\\ua625",
        "\\ua8d5", "\\ua905", "\\ua9d5", "\\ua9f5", "\\uaa55", "\\uabf5",
        "\\uff15", "\\U000104a5", "\\U00010d35", "\\U0001106b",
        "\\U000110f5", "\\U0001113b", "\\U000111d5", "\\U000112f5",
        "\\U00011455", "\\U000114d5", "\\U00011655", "\\U000116c5",
        "\\U00011735", "\\U000118e5", "\\U00011955", "\\U00011c55",
        "\\U00011d55", "\\U00011da5", "\\U00016a65", "\\U00016ac5",
        "\\U00016b55", "\\U0001d7d3", "\\U0001d7dd", "\\U0001d7e7",
        "\\U0001d7f1", "\\U0001d7fb", "\\U0001e145", "\\U0001e2f5",
        "\\U0001e955", "\\U0001fbf5" },
      { "6", "\\u0666", "\\u06f6", "\\u07c6", "\\u096c", "\\u09ec",
        "\\u0a6c", "\\u0aec", "\\u0b6c", "\\u0bec", "\\u0c6c", "\\u0cec",
        "\\u0d6c", "\\u0dec", "\\u0e56", "\\u0ed6", "\\u0f26", "\\u1046",
        "\\u1096", "\\u17e6", "\\u1816", "\\u194c", "\\u19d6", "\\u1a86",
        "\\u1a96", "\\u1b56", "\\u1bb6", "\\u1c46", "\\u1c56", "\\ua626",
        "\\ua8d6", "\\ua906", "\\ua9d6", "\\ua9f6", "\\uaa56", "\\uabf6",
        "\\uff16", "\\U000104a6", "\\U00010d36", "\\U0001106c",
        "\\U000110f6", "\\U0001113c", "\\U000111d6", "\\U000112f6",
        "\\U00011456", "\\U000114d6", "\\U00011656", "\\U000116c6",
        "\\U00011736", "\\U000118e6", "\\U00011956", "\\U00011c56",
        "\\U00011d56", "\\U00011da6", "\\U00016a66", "\\U00016ac6",
        "\\U00016b56", "\\U0001d7d4", "\\U0001d7de", "\\U0001d7e8",
        "\\U0001d7f2", "\\U0001d7fc", "\\U0001e146", "\\U0001e2f6",
        "\\U0001e956", "\\U0001fbf6" },
      { "7", "\\u0667", "\\u06f7", "\\u07c7", "\\u096d", "\\u09ed",
        "\\u0a6d", "\\u0aed", "\\u0b6d", "\\u0bed", "\\u0c6d", "\\u0ced",
        "\\u0d6d", "\\u0ded", "\\u0e57", "\\u0ed7", "\\u0f27", "\\u1047",
        "\\u1097", "\\u17e7", "\\u1817", "\\u194d", "\\u19d7", "\\u1a87",
        "\\u1a97", "\\u1b57", "\\u1bb7", "\\u1c47", "\\u1c57", "\\ua627",
        "\\ua8d7", "\\ua907", "\\ua9d7", "\\ua9f7", "\\uaa57", "\\uabf7",
        "\\uff17", "\\U000104a7", "\\U00010d37", "\\U0001106d",
        "\\U000110f7", "\\U0001113d", "\\U000111d7", "\\U000112f7",
        "\\U00011457", "\\U000114d7", "\\U00011657", "\\U000116c7",
        "\\U00011737", "\\U000118e7", "\\U00011957", "\\U00011c57",
        "\\U00011d57", "\\U00011da7", "\\U00016a67", "\\U00016ac7",
        "\\U00016b57", "\\U0001d7d5", "\\U0001d7df", "\\U0001d7e9",
        "\\U0001d7f3", "\\U0001d7fd", "\\U0001e147", "\\U0001e2f7",
        "\\U0001e957", "\\U0001fbf7" },
      { "8", "\\u0668", "\\u06f8", "\\u07c8", "\\u096e", "\\u09ee",
        "\\u0a6e", "\\u0aee", "\\u0b6e", "\\u0bee", "\\u0c6e", "\\u0cee",
        "\\u0d6e", "\\u0dee", "\\u0e58", "\\u0ed8", "\\u0f28", "\\u1048",
        "\\u1098", "\\u17e8", "\\u1818", "\\u194e", "\\u19d8", "\\u1a88",
        "\\u1a98", "\\u1b58", "\\u1bb8", "\\u1c48", "\\u1c58", "\\ua628",
        "\\ua8d8", "\\ua908", "\\ua9d8", "\\ua9f8", "\\uaa58", "\\uabf8",
        "\\uff18", "\\U000104a8", "\\U00010d38", "\\U0001106e",
        "\\U000110f8", "\\U0001113e", "\\U000111d8", "\\U000112f8",
        "\\U00011458", "\\U000114d8", "\\U00011658", "\\U000116c8",
        "\\U00011738", "\\U000118e8", "\\U00011958", "\\U00011c58",
        "\\U00011d58", "\\U00011da8", "\\U00016a68", "\\U00016ac8",
        "\\U00016b58", "\\U0001d7d6", "\\U0001d7e0", "\\U0001d7ea",
        "\\U0001d7f4", "\\U0001d7fe", "\\U0001e148", "\\U0001e2f8",
        "\\U0001e958", "\\U0001fbf8" },
      { "9", "\\u0669", "\\u06f9", "\\u07c9", "\\u096f", "\\u09ef",
        "\\u0a6f", "\\u0aef", "\\u0b6f", "\\u0bef", "\\u0c6f", "\\u0cef",
        "\\u0d6f", "\\u0def", "\\u0e59", "\\u0ed9", "\\u0f29", "\\u1049",
        "\\u1099", "\\u17e9", "\\u1819", "\\u194f", "\\u19d9", "\\u1a89",
        "\\u1a99", "\\u1b59", "\\u1bb9", "\\u1c49", "\\u1c59", "\\ua629",
        "\\ua8d9", "\\ua909", "\\ua9d9", "\\ua9f9", "\\uaa59", "\\uabf9",
        "\\uff19", "\\U000104a9", "\\U00010d39", "\\U0001106f",
        "\\U000110f9", "\\U0001113f", "\\U000111d9", "\\U000112f9",
        "\\U00011459", "\\U000114d9", "\\U00011659", "\\U000116c9",
        "\\U00011739", "\\U000118e9", "\\U00011959", "\\U00011c59",
        "\\U00011d59", "\\U00011da9", "\\U00016a69", "\\U00016ac9",
        "\\U00016b59", "\\U0001d7d7", "\\U0001d7e1", "\\U0001d7eb",
        "\\U0001d7f5", "\\U0001d7ff", "\\U0001e149", "\\U0001e2f9",
        "\\U0001e959", "\\U0001fbf9" }
    >>

\* \d of the regular expressions
IsDigit(c) == \E i \in 1..10 : c \in DigitChars[i]

DigitValue(c) == (CHOOSE i \in 1..10 : c \in DigitChars[i]) - 1

\* the characters int() strips from both ends: tab, line feed, vertical tab,
\* form feed, carriage return, space, U+0085, U+00A0 and the space
\* separators of Unicode; U+001C..U+001F are not among them
Whitespace ==
    { "\t", "\n", "", "", "\r", " ", "\\x85", "\\xa0", "\\u1680",
      "\\u2000", "\\u2001", "\\u2002", "\\u2003", "\\u2004", "\\u2005",
      "\\u2006", "\\u2007", "\\u2008", "\\u2009", "\\u200a", "\\u2028",
      "\\u2029", "\\u202f", "\\u205f", "\\u3000" }

RECURSIVE lstrip(_)
lstrip(s) ==
    IF Len(s) > 0 /\ s[1] \in Whitespace THEN lstrip(Tail(s)) ELSE s

RECURSIVE rstrip(_)
rstrip(s) ==
    IF Len(s) > 0 /\ s[Len(s)] \in Whitespace
    THEN rstrip(SubSeq(s, 1, Len(s) - 1))
    ELSE s

strip(s) == rstrip(lstrip(s))

\* value of a string of digits and underscores, most significant first
RECURSIVE DecimalValue(_)
DecimalValue(s) ==
    IF Len(s) = 0 THEN 0
    ELSE LET front == SubSeq(s, 1, Len(s) - 1)
             last  == s[Len(s)]
         IN  IF last = "_" THEN DecimalValue(front)
             ELSE DecimalValue(front) * 10 + DigitValue(last)

\* the exception int() raises, not caught anywhere
ValueError == [kind |-> "raise", value |-> "ValueError"]

\* digits, with single underscores between digits
IsIntBody(body) ==
    /\ Len(body) > 0
    /\ \A i \in 1..Len(body) :
          \/ IsDigit(body[i])
          \/ /\ body[i] = "_"
             /\ 1 < i
             /\ i < Len(body)
             /\ IsDigit(body[i - 1])
             /\ IsDigit(body[i + 1])

IntOf(sign, body) ==
    IF IsIntBody(body)
    THEN [kind |-> "return", value |-> sign * DecimalValue(body)]
    ELSE ValueError

\* int of a string without surrounding whitespace: an optional sign, then
\* the digits
IntStripped(t) ==
    IF Len(t) > 0 /\ t[1] \in {"+", "-"}
    THEN IntOf(IF t[1] = "-" THEN -1 ELSE 1, Tail(t))
    ELSE IntOf(1, t)

\* int(s) of a str: surrounding whitespace, an optional sign, digits with
\* single underscores between digits; anything else raises ValueError
int(s) == IntStripped(strip(s))

\* str(n) for n >= 0
RECURSIVE str(_)
str(n) ==
    IF n < 10 THEN <<AsciiDigits[n + 1]>>
    ELSE str(n \div 10) \o <<AsciiDigits[(n % 10) + 1]>>

RECURSIVE Zeros(_)
Zeros(k) == IF k <= 0 THEN <<>> ELSE <<"0">> \o Zeros(k - 1)

\* format without the zero padding
format_unpadded(n, width) == str(n)

\* f"{n:0w}" for n >= 0: zero-padded to at least w characters
format(n, width) == Zeros(width - Len(str(n))) \o str(n)

\* s.split(sep) for a one-character separator
RECURSIVE split(_, _)
split(s, sep) ==
    IF \E i \in 1..Len(s) : s[i] = sep
    THEN LET i == CHOOSE k \in 1..Len(s) :
                      s[k] = sep /\ \A j \in 1..(k - 1) : s[j] # sep
         IN  <<SubSeq(s, 1, i - 1)>> \o split(SubSeq(s, i + 1, Len(s)), sep)
    ELSE <<s>>

----------------------------------------------------------------------------
(* adjust_time_code                                                        *)

MsPerHour == 3600000
MsPerMinute == 60000
MsPerSecond == 1000

\* length of the longest run of digits of s that starts at position i
RECURSIVE DigitRun(_, _)
DigitRun(s, i) ==
    IF i <= Len(s) /\ IsDigit(s[i]) THEN 1 + DigitRun(s, i + 1) ELSE 0

\* the groups of a match whose digit runs have the lengths n1..n4, the
\* separator before the milliseconds being comma
GroupsWith(time_code, n1, n2, n3, n4, comma) ==
    IF /\ n1 > 0
       /\ Len(time_code) > n1 /\ time_code[n1 + 1] = ":"
       /\ n2 > 0
       /\ Len(time_code) > n1 + n2 + 1 /\ time_code[n1 + n2 + 2] = ":"
       /\ n3 > 0
       /\ Len(time_code) > n1 + n2 + n3 + 2
       /\ time_code[n1 + n2 + n3 + 3] = comma
       /\ n4 > 0
    THEN [ok |-> TRUE,
          groups |-> <<SubSeq(time_code, 1, n1),
                       SubSeq(time_code, n1 + 2, n1 + n2 + 1),
                       SubSeq(time_code, n1 + n2 + 3, n1 + n2 + n3 + 2),
                       SubSeq(time_code, n1 + n2 + n3 + 4,
                              n1 + n2 + n3 + n4 + 3)>>]
    ELSE [ok |-> FALSE, groups |-> <<>>]

\* Groups with '.' for the separator before the milliseconds
GroupsDot(time_code, n1, n2, n3, n4) ==
    GroupsWith(time_code, n1, n2, n3, n4, ".")

\* (\d+):(\d+):(\d+),(\d+) with the lengths of the four digit runs known
Groups(time_code, n1, n2, n3, n4) ==
    GroupsWith(time_code, n1, n2, n3, n4, ",")

\* the fourth run starts after the third and its separator
MatchFourth(time_code, n1, n2, n3) ==
    Groups(time_code, n1, n2, n3, DigitRun(time_code, n1 + n2 + n3 + 4))

MatchThird(time_code, n1, n2) ==
    MatchFourth(time_code, n1, n2, DigitRun(time_code, n1 + n2 + 3))

MatchSecond(time_code, n1) ==
    MatchThird(time_code, n1, DigitRun(time_code, n1 + 2))

\* re.match(r'(\d+):(\d+):(\d+),(\d+)', time_code): anchored at the start,
\* each \d+ greedy; the separators are no digits, so the longest run is the
\* only candidate for each group
TimeCodeMatch(time_code) == MatchSecond(time_code, DigitRun(time_code, 1))

NegativeTimeMessage == <<"Error: Adjusted time results in negative time.">>

InvalidTimeFormatMessage(time_code) ==
    <<"Error: Invalid time format '", time_code, "'.">>

\* RenderTimeCode with the minutes and seconds taken from the total instead
\* of from the remainder of the division before
RenderTimeCodeNoRemainder(total_ms) ==
    LET hours        == total_ms \div MsPerHour
        minutes      == total_ms \div MsPerMinute
        seconds      == total_ms \div MsPerSecond
        milliseconds == total_ms % MsPerSecond
    IN  format(hours, 2) \o <<":">> \o format(minutes, 2) \o <<":">>
          \o format(seconds, 2) \o <<",">> \o format(milliseconds, 3)

\* f"{hours:02}:{minutes:02}:{seconds:02},{milliseconds:03}" of the
\* successive divmods of total_ms >= 0
RenderTimeCode(total_ms) ==
    LET hours        == total_ms \div MsPerHour
        remainder1   == total_ms % MsPerHour
        minutes      == remainder1 \div MsPerMinute
        remainder2   == remainder1 % MsPerMinute
        seconds      == remainder2 \div MsPerSecond
        milliseconds == remainder2 % MsPerSecond
    IN  format(hours, 2) \o <<":">> \o format(minutes, 2) \o <<":">>
          \o format(seconds, 2) \o <<",">> \o format(milliseconds, 3)

\* lines 47 and 52: the four groups as integers, flattened to milliseconds
TotalMs(groups) ==
    (int(groups[1]).value * MsPerHour) + (int(groups[2]).value * MsPerMinute)
      + (int(groups[3]).value * MsPerSecond) + int(groups[4]).value

\* TotalMs leaving the milliseconds out
TotalMsWithoutMs(groups) ==
    (int(groups[1]).value * MsPerHour) + (int(groups[2]).value * MsPerMinute)
      + (int(groups[3]).value * MsPerSecond)

\* lines 55-63: the exit on a negative total, or the rendered time code
Rendered(total_ms) ==
    IF total_ms < 0
    THEN [kind |-> "exit", value |-> NegativeTimeMessage]
    ELSE [kind |-> "return", value |-> RenderTimeCode(total_ms)]

\* lines 46-53
Adjusted(time_code, match, adjustment) ==
    IF ~match.ok
    THEN [kind |-> "exit", value |-> InvalidTimeFormatMessage(time_code)]
    ELSE Rendered(TotalMs(match.groups) + adjustment)

\* adjust_time_code leaving the milliseconds out of the total
adjust_time_code_no_ms(time_code, adjustment) ==
    IF ~TimeCodeMatch(time_code).ok
    THEN [kind |-> "exit", value |-> InvalidTimeFormatMessage(time_code)]
    ELSE Rendered(TotalMsWithoutMs(TimeCodeMatch(time_code).groups)
                    + adjustment)

\* the larger of two integers
Larger(a, b) == IF a > b THEN a ELSE b

\* adjust_time_code clamping a negative total to zero instead of exiting
adjust_time_code_clamped(time_code, adjustment) ==
    IF ~TimeCodeMatch(time_code).ok
    THEN [kind |-> "exit", value |-> InvalidTimeFormatMessage(time_code)]
    ELSE Rendered(Larger(0, TotalMs(TimeCodeMatch(time_code).groups)
                              + adjustment))

adjust_time_code(time_code, adjustment) ==
    Adjusted(time_code, TimeCodeMatch(time_code), adjustment)

----------------------------------------------------------------------------
(* calculate_adjustment_milliseconds                                       *)

Contains(s, c) == \E i \in 1..Len(s) : s[i] = c

\* seconds, milliseconds = <two results of int>
PairOfInts(first, second) ==
    IF first.kind = "return" /\ second.kind = "return"
    THEN [kind |-> "return", value |-> <<first.value, second.value>>]
    ELSE ValueError

\* the unpacking of map(int, fields) into exactly two values
UnpackTwo(fields) ==
    IF Len(fields) = 2
    THEN PairOfInts(int(fields[1]), int(fields[2]))
    ELSE ValueError

\* the seconds segment: "S,ms" unpacked from map(int, s.split(',')), or
\* int(s) when it holds no ','; the value returned is
\* <<seconds, milliseconds>>
SecondsWithMs(seconds_with_ms) ==
    IF Contains(seconds_with_ms, ",")
    THEN UnpackTwo(split(seconds_with_ms, ","))
    ELSE PairOfInts(int(seconds_with_ms), [kind |-> "return", value |-> 0])

\* Sign with the two markers exchanged
SignExchanged(adjustment_str) ==
    IF Len(adjustment_str) > 0 /\ adjustment_str[1] \in {"A", "D"}
    THEN IF adjustment_str[1] = "A" THEN -1 ELSE 1
    ELSE 1

\* sign of the leading direction marker
Sign(adjustment_str) ==
    IF Len(adjustment_str) > 0 /\ adjustment_str[1] \in {"A", "D"}
    THEN IF adjustment_str[1] = "A" THEN 1 ELSE -1
    ELSE 1

\* the string after the direction marker
Unmarked(adjustment_str) ==
    IF Len(adjustment_str) > 0 /\ adjustment_str[1] \in {"A", "D"}
    THEN Tail(adjustment_str)
    ELSE adjustment_str

Zero == [kind |-> "return", value |-> 0]

\* line 97, once every numeric part has been converted
TotalOffset(sign, hours, minutes, secs) ==
    IF \/ hours.kind = "raise"
       \/ minutes.kind = "raise"
       \/ secs.kind = "raise"
    THEN ValueError
    ELSE [kind  |-> "return",
          value |-> (hours.value * MsPerHour + minutes.value * MsPerMinute
                       + secs.value[1] * MsPerSecond + secs.value[2])
                      * sign]

\* lines 77-95: the shape is chosen by the number of ':'-separated parts
OffsetOfParts(sign, rest, parts) ==
    IF Len(parts) = 3
    THEN TotalOffset(sign, int(parts[1]), int(parts[2]),
                     SecondsWithMs(parts[3]))
    ELSE IF Len(parts) = 2
    THEN TotalOffset(sign, Zero, int(parts[1]), SecondsWithMs(parts[2]))
    ELSE TotalOffset(sign, Zero, Zero, SecondsWithMs(rest))

calculate_adjustment_milliseconds(adjustment_str) ==
    OffsetOfParts(Sign(adjustment_str), Unmarked(adjustment_str),
                  split(Unmarked(adjustment_str), ":"))

----------------------------------------------------------------------------
(* process_srt_file                                                        *)

\* \d{2}:\d{2}:\d{2},\d{3} position by position; "\\d" stands for one digit
TimeCodeShape ==
    <<"\\d", "\\d", ":", "\\d", "\\d", ":", "\\d", "\\d", ",",
      "\\d", "\\d", "\\d">>

Arrow == <<" ", "-", "-", ">", " ">>

\* (\d{2}:\d{2}:\d{2},\d{3}) --> (\d{2}:\d{2}:\d{2},\d{3})
time_code_pattern == TimeCodeShape \o Arrow \o TimeCodeShape

\* PatternMatches with the last digit of the second time code optional
PatternMatchesShort(line) ==
    /\ Len(line) >= Len(time_code_pattern)
    /\ \A i \in 1..(Len(time_code_pattern) - 1) :
          IF time_code_pattern[i] = "\\d"
          THEN IsDigit(line[i])
          ELSE line[i] = time_code_pattern[i]

\* time_code_pattern.match(line): anchored at the start of the line, not
\* required to reach its end
PatternMatches(line) ==
    /\ Len(line) >= Len(time_code_pattern)
    /\ \A i \in 1..Len(time_code_pattern) :
          IF time_code_pattern[i] = "\\d"
          THEN IsDigit(line[i])
          ELSE line[i] = time_code_pattern[i]

\* match.groups()
StartGroup(line) == SubSeq(line, 1, Len(TimeCodeShape))

EndGroup(line) ==
    SubSeq(line, Len(TimeCodeShape) + Len(Arrow) + 1, Len(time_code_pattern))

\* line 114 and the append of line 115, unless adjust_time_code has exited
\* (the start time is adjusted before the end time)
AdjustedLine(adjusted_start, adjusted_end, rest) ==
    IF adjusted_start.kind # "return" THEN adjusted_start
    ELSE IF adjusted_end.kind # "return" THEN adjusted_end
    ELSE [kind  |-> "return",
          value |-> adjusted_start.value \o Arrow \o adjusted_end.value
                      \o rest]

\* AdjustLine keeping what follows the second time code on the line
AdjustLineKeepingRest(line, adjustment) ==
    IF PatternMatches(line)
    THEN AdjustedLine(adjust_time_code(StartGroup(line), adjustment),
                      adjust_time_code(EndGroup(line), adjustment),
                      SubSeq(line, Len(time_code_pattern) + 1, Len(line)))
    ELSE [kind |-> "return", value |-> line]

\* the body of the loop for one line: the line to append, or the exit of
\* adjust_time_code
AdjustLine(line, adjustment) ==
    IF PatternMatches(line)
    THEN AdjustedLine(adjust_time_code(StartGroup(line), adjustment),
                      adjust_time_code(EndGroup(line), adjustment),
                      <<"\n">>)
    ELSE [kind |-> "return", value |-> line]

\* the loop over lines[k..], appending to adjusted_lines; the first exit
\* ends the run
RECURSIVE ProcessFrom(_, _, _, _)
ProcessFrom(lines, adjustment, k, adjusted_lines) ==
    IF k > Len(lines) THEN [kind |-> "return", value |-> adjusted_lines]
    ELSE IF AdjustLine(lines[k], adjustment).kind # "return"
    THEN AdjustLine(lines[k], adjustment)
    ELSE ProcessFrom(lines, adjustment, k + 1,
                     Append(adjusted_lines,
                            AdjustLine(lines[k], adjustment).value))

process_srt_file(lines, adjustment) == ProcessFrom(lines, adjustment, 1, <<>>)

----------------------------------------------------------------------------
(* State                                                                   *)

VARIABLES
    pc,                    \* main: the statement about to run
    args,                  \* main: the parsed command line (file, time, output)
    stdout,                \* what sys.stdout is
    fs,                    \* the files: path -> [status, lines]
    adjustment_ms,         \* main: local of line 124
    srt_content,           \* main: local of line 125
    adjusted_srt_content,  \* main: local of line 126
    output_file,           \* main: local of line 127
    outcome,               \* main: how the process ended
    trace,                 \* main: the calls made so far, in order
    call,                  \* a direct call of one function: its arguments
    ret,                   \* the result of that call
    prev,                  \* the call and result before a second application
    given                  \* the inputs as drawn at the start, with what is
                           \* known of them by construction

mainVars == <<pc, args, stdout, fs, adjustment_ms, srt_content,
              adjusted_srt_content, output_file, outcome, trace>>

callVars == <<call, ret, prev>>

vars == <<pc, args, stdout, fs, adjustment_ms, srt_content,
          adjusted_srt_content, output_file, outcome, trace, call, ret, prev,
          given>>

Pending == [kind |-> "pending", value |-> <<>>]

NoCall == [fn |-> "none"]

\* the variables of main when a function is called directly
MainIdle ==
    /\ pc = "idle"
    /\ args = [file |-> "", time |-> <<>>, output |-> ""]
    /\ stdout = "open"
    /\ fs = <<>>
    /\ adjustment_ms = 0
    /\ srt_content = <<>>
    /\ adjusted_srt_content = <<>>
    /\ output_file = ""
    /\ outcome = Pending
    /\ trace = <<>>

\* the variables of a direct call when main runs
CallIdle ==
    /\ call = NoCall
    /\ ret = Pending
    /\ prev = NoCall

----------------------------------------------------------------------------
(* Inputs                                                                  *)

\* largest number of lines of an input file
MaxLines == 2

\* numerals with the number each denotes
Numeral(text, n) == [text |-> text, n |-> n]

\* a time code assembled from four numerals
TimeCodeText(h, m, s, ms) ==
    h.text \o <<":">> \o m.text \o <<":">> \o s.text \o <<",">> \o ms.text

TimeCodeTotal(h, m, s, ms) ==
    h.n * 3600000 + m.n * 60000 + s.n * 1000 + ms.n

HourNumerals ==
    { Numeral(<<"0", "0">>, 0), Numeral(<<"0", "1">>, 1),
      Numeral(<<"9", "9">>, 99), Numeral(<<"7">>, 7),
      Numeral(<<"1", "0", "0">>, 100), Numeral(<<"1", "2", "3">>, 123),
      Numeral(<<"\\u0663", "\\u0663">>, 33) }

MinuteNumerals ==
    { Numeral(<<"0", "0">>, 0), Numeral(<<"5", "9">>, 59),
      Numeral(<<"9", "9">>, 99), Numeral(<<"5">>, 5),
      Numeral(<<"\\U0001d7d3", "9">>, 59) }

SecondNumerals ==
    { Numeral(<<"0", "0">>, 0), Numeral(<<"1", "0">>, 10),
      Numeral(<<"5", "9">>, 59), Numeral(<<"7", "5">>, 75) }

MsNumerals ==
    { Numeral(<<"0", "0", "0">>, 0), Numeral(<<"0", "0", "1">>, 1),
      Numeral(<<"9", "9", "9">>, 999), Numeral(<<"5">>, 5),
      Numeral(<<"1", "2", "3", "4">>, 1234),
      Numeral(<<"0", "0", "\\uff15">>, 5) }

\* what may follow the time code in the string handed to adjust_time_code
TimeCodeSuffixes == { <<>>, <<" ", "x">> }

\* strings the four-field pattern does not match; U+00B2, superscript two,
\* is no decimal digit
MalformedTimeCodes ==
    { <<>>,
      <<"0", "0", ":", "0", "0", ":", "1", "\\xb2", ",", "0", "0", "0">>,
      <<"0", "0", ":", "0", "0", ":", "1", "0">>,
      <<"0", "0", ":", "0", "0", ",", "1", "0", "0">>,
      <<" ", "0", "0", ":", "0", "0", ":", "1", "0", ",", "0", "0", "0">>,
      <<"0", "0", ":", "0", "0", ":", "1", "0", ".", "0", "0", "0">>,
      <<"0", "0", ":", ":", "1", "0", ",", "0", "0", "0">>,
      <<"x">> }

Adjustments ==
    { 0, 1, -1, 2500, -5000, 150000, 3600000, -3600000, 360000000,
      -360000000 }

----------------------------------------------------------------------------
(* adjust_time_code called directly                                        *)

InitAdjust ==
    /\ MainIdle
    /\ ret = Pending
    /\ prev = NoCall
    /\ \E adjustment \in Adjustments :
          \/ \E h \in HourNumerals, m \in MinuteNumerals,
                s \in SecondNumerals, ms \in MsNumerals,
                suffix \in TimeCodeSuffixes :
                /\ given = [wellformed |-> TRUE,
                            total |-> TimeCodeTotal(h, m, s, ms)]
                /\ call = [fn |-> "adjust_time_code",
                           time_code |-> TimeCodeText(h, m, s, ms) \o suffix,
                           adjustment |-> adjustment]
          \/ \E time_code \in MalformedTimeCodes :
                /\ given = [wellformed |-> FALSE, total |-> 0]
                /\ call = [fn |-> "adjust_time_code",
                           time_code |-> time_code,
                           adjustment |-> adjustment]

AdjustTimeCode ==
    /\ call.fn = "adjust_time_code"
    /\ ret = Pending
    /\ ret' = adjust_time_code(call.time_code, call.adjustment)
    /\ UNCHANGED <<mainVars, call, prev, given>>

NextAdjust == AdjustTimeCode

SpecAdjust == InitAdjust /\ [][NextAdjust]_vars

ZeroTimeCode ==
    <<"0", "0", ":", "0", "0", ":", "0", "0", ",", "0", "0", "0">>

OneMsTimeCode ==
    <<"0", "0", ":", "0", "0", ":", "0", "0", ",", "0", "0", "1">>

\* C1: adjust_time_code ends in the negative-result exit exactly when the
\* total of the four fields plus the adjustment is below zero; otherwise it
\* returns a time code, and that time code is the zero time code only when
\* the adjusted total is zero (no clamping). 00:00:00,000 adjusted by -1
\* exits; 00:00:00,001 adjusted by -1 returns 00:00:00,000.
C1_NegativeExactly ==
    (call.fn = "adjust_time_code" /\ ret # Pending /\ given.wellformed) =>
        LET total == given.total + call.adjustment
        IN  /\ (ret.kind = "exit" /\ ret.value = NegativeTimeMessage)
                  <=> (total < 0)
            /\ (total >= 0) => ret.kind = "return"
            /\ (ret.kind = "return" /\ ret.value = ZeroTimeCode)
                  <=> (total = 0)
            /\ (call.time_code = ZeroTimeCode /\ call.adjustment = -1)
                  => ret.kind = "exit"
            /\ (call.time_code = OneMsTimeCode /\ call.adjustment = -1)
                  => ret = [kind |-> "return", value |-> ZeroTimeCode]

\* 00:00:00,000 adjusted by -1 has ended in the negative-result exit
C1_Witness ==
    /\ call.fn = "adjust_time_code"
    /\ call.time_code = ZeroTimeCode
    /\ call.adjustment = -1
    /\ ret = [kind |-> "exit", value |-> NegativeTimeMessage]

IsNumeral(s) == Len(s) > 0 /\ \A i \in 1..Len(s) : IsDigit(s[i])

\* C7: whenever adjust_time_code returns, with T the adjusted total, the
\* rendered time code has minutes and seconds in 0..59, milliseconds in
\* 0..999, hours equal to T div 3600000 (three or more digits from 100
\* hours on), and its four fields flatten back to T.
C7_FieldBounds ==
    (call.fn = "adjust_time_code" /\ ret.kind = "return"
       /\ given.wellformed) =>
        LET T   == given.total + call.adjustment
            hms == split(ret.value, ":")
        IN  /\ Len(hms) = 3
            /\ LET sms == split(hms[3], ",")
               IN  /\ Len(sms) = 2
                   /\ IsNumeral(hms[1]) /\ IsNumeral(hms[2])
                   /\ IsNumeral(sms[1]) /\ IsNumeral(sms[2])
                   /\ LET H  == DecimalValue(hms[1])
                          M  == DecimalValue(hms[2])
                          S  == DecimalValue(sms[1])
                          ms == DecimalValue(sms[2])
                      IN  /\ M \in 0..59
                          /\ S \in 0..59
                          /\ ms \in 0..999
                          /\ H = T \div 3600000
                          /\ (H >= 100) => Len(hms[1]) >= 3
                          /\ H * 3600000 + M * 60000 + S * 1000 + ms = T

\* a time code of 100 hours or more, with minutes, seconds and milliseconds
\* that are not zero, has been rendered
C7_Witness ==
    /\ call.fn = "adjust_time_code"
    /\ ret.kind = "return"
    /\ given.wellformed
    /\ given.total + call.adjustment >= 360000000
    /\ (given.total + call.adjustment) % 3600000 = 3599999
    /\ Len(ret.value) = 13

----------------------------------------------------------------------------
(* calculate_adjustment_milliseconds called directly                       *)

Markers == { <<>>, <<"A">>, <<"D">> }

MarkerSign(marker) == IF marker = <<"D">> THEN -1 ELSE 1

OffsetHourNumerals ==
    { Numeral(<<"0">>, 0), Numeral(<<"0", "0">>, 0), Numeral(<<"1">>, 1),
      Numeral(<<"1", "0", "0">>, 100), Numeral(<<"\\u0663">>, 3) }

OffsetMinuteNumerals ==
    { Numeral(<<"0">>, 0), Numeral(<<"0", "2">>, 2),
      Numeral(<<"3", "0">>, 30), Numeral(<<"9", "0">>, 90) }

\* int() accepts a sign, surrounding whitespace (a vertical tab, U+00A0,
\* U+2003) and an underscore between digits, and no field is range-checked
OffsetSecondNumerals ==
    { Numeral(<<"5">>, 5), Numeral(<<"0", "0">>, 0),
      Numeral(<<"0", "2">>, 2), Numeral(<<"7", "5">>, 75),
      Numeral(<<"-", "3">>, -3), Numeral(<<"5", "">>, 5),
      Numeral(<<"\\xa0", "\\uff15", "\\u2003">>, 5),
      Numeral(<<"1", "_", "0">>, 10) }

\* the optional ",ms": absent, or a comma and a numeral
OffsetMsParts ==
    { Numeral(<<>>, 0), Numeral(<<",", "5", "0", "0">>, 500),
      Numeral(<<",", "5">>, 5), Numeral(<<",", "0", "0", "1">>, 1),
      Numeral(<<",", "1", "0", "0", "0">>, 1000),
      Numeral(<<",", "\\xa0", "1">>, 1) }

\* strings with a numeric part that is no integer, or of no known shape;
\* int() strips no U+001C and reads no U+00B2
MalformedOffsets ==
    { <<>>, <<"x">>, <<"A">>, <<"A", "D", "5">>, <<"5", ",">>,
      <<"", "5">>, <<"5", "\\xb2">>, <<"1", "_", "_", "0">>,
      <<"1", ",", "2", ",", "3">>, <<":", "5">>, <<"1", ":", "x", ":", "3">>,
      <<"1", ":", "2", ":", "3", ":", "4">>, <<"D", "2", ":", "3", "0", ",">>,
      <<"1", ".", "5">> }

OffsetCall(text) ==
    [fn |-> "calculate_adjustment_milliseconds", adjustment_str |-> text]

InitOffset ==
    /\ MainIdle
    /\ ret = Pending
    /\ prev = NoCall
    /\ \/ \E marker \in Markers, h \in OffsetHourNumerals,
             m \in OffsetMinuteNumerals, sec \in OffsetSecondNumerals,
             ms \in OffsetMsParts, segments \in 1..3 :
             /\ given = [wellformed |-> TRUE,
                         segments |-> segments,
                         sign |-> MarkerSign(marker),
                         H |-> IF segments = 3 THEN h.n ELSE 0,
                         M |-> IF segments >= 2 THEN m.n ELSE 0,
                         S |-> sec.n,
                         ms |-> ms.n]
             /\ call = OffsetCall(
                    marker
                      \o (IF segments = 3 THEN h.text \o <<":">> ELSE <<>>)
                      \o (IF segments >= 2 THEN m.text \o <<":">> ELSE <<>>)
                      \o sec.text \o ms.text)
       \/ \E text \in MalformedOffsets :
             /\ given = [wellformed |-> FALSE]
             /\ call = OffsetCall(text)

CalculateAdjustmentMilliseconds ==
    /\ call.fn = "calculate_adjustment_milliseconds"
    /\ ret = Pending
    /\ ret' = calculate_adjustment_milliseconds(call.adjustment_str)
    /\ UNCHANGED <<mainVars, call, prev, given>>

NextOffset == CalculateAdjustmentMilliseconds

SpecOffset == InitOffset /\ [][NextOffset]_vars

\* C6: for a well-formed offset string calculate_adjustment_milliseconds
\* returns sign * (H*3600000 + M*60000 + S*1000 + ms): sign -1 for a
\* leading D and +1 otherwise, H = 0 with fewer than three segments,
\* M = 0 with one segment, ms = 0 without ",ms", no field range-checked.
C6_OffsetValue ==
    (call.fn = "calculate_adjustment_milliseconds" /\ ret # Pending
       /\ given.wellformed) =>
        ret = [kind  |-> "return",
               value |-> given.sign * (given.H * 3600000 + given.M * 60000
                                         + given.S * 1000 + given.ms)]

\* a delay of 90 minutes, 75 seconds and 500 ms in the shape M:S,ms has
\* been converted
C6_Witness ==
    /\ call.fn = "calculate_adjustment_milliseconds"
    /\ call.adjustment_str =
          <<"D", "9", "0", ":", "7", "5", ",", "5", "0", "0">>
    /\ ret = [kind |-> "return", value |-> -5475500]

----------------------------------------------------------------------------
(* process_srt_file called directly, and called again on its own output    *)

\* a numeral written in the digits "0".."9"
AsciiNumeral(numeral) ==
    \A i \in 1..Len(numeral.text) :
       \E d \in 1..10 : AsciiDigits[d] = numeral.text[i]

\* a fixed-width time code with its total; canonical: minutes and seconds
\* at most 59; ascii: every digit is one of "0".."9"
Stamp(h, m, s, ms) ==
    [text |-> TimeCodeText(h, m, s, ms),
     n |-> TimeCodeTotal(h, m, s, ms),
     canonical |-> m.n <= 59 /\ s.n <= 59,
     ascii |-> \A numeral \in {h, m, s, ms} : AsciiNumeral(numeral)]

\* a line that starts with two fixed-width time codes around " --> ";
\* bare: nothing but a newline follows the second time code
TimingLine(start, end, rest) ==
    [text |-> start.text \o <<" ", "-", "-", ">", " ">> \o end.text \o rest,
     timing |-> TRUE,
     startText |-> start.text,
     endText |-> end.text,
     start |-> start.n,
     end |-> end.n,
     canonical |-> start.canonical /\ end.canonical,
     ascii |-> start.ascii /\ end.ascii,
     bare |-> rest = <<"\n">>]

\* a line that does not start with the fixed-width timing pattern
PlainLine(text) ==
    [text |-> text, timing |-> FALSE, startText |-> <<>>, endText |-> <<>>,
     start |-> 0, end |-> 0, canonical |-> FALSE, ascii |-> FALSE,
     bare |-> FALSE]

CueLine ==
    TimingLine(Stamp(Numeral(<<"0", "0">>, 0), Numeral(<<"0", "0">>, 0),
                     Numeral(<<"1", "0">>, 10), Numeral(<<"0", "0", "0">>, 0)),
               Stamp(Numeral(<<"0", "0">>, 0), Numeral(<<"0", "0">>, 0),
                     Numeral(<<"1", "2">>, 12), Numeral(<<"0", "0", "0">>, 0)),
               <<"\n">>)

ZeroCueLine ==
    TimingLine(Stamp(Numeral(<<"0", "0">>, 0), Numeral(<<"0", "0">>, 0),
                     Numeral(<<"0", "0">>, 0), Numeral(<<"0", "0", "0">>, 0)),
               Stamp(Numeral(<<"0", "0">>, 0), Numeral(<<"0", "0">>, 0),
                     Numeral(<<"0", "0">>, 0), Numeral(<<"0", "0", "1">>, 1)),
               <<"\n">>)

OneMsCueLine ==
    TimingLine(Stamp(Numeral(<<"0", "0">>, 0), Numeral(<<"0", "0">>, 0),
                     Numeral(<<"0", "0">>, 0), Numeral(<<"0", "0", "1">>, 1)),
               Stamp(Numeral(<<"0", "0">>, 0), Numeral(<<"0", "0">>, 0),
                     Numeral(<<"0", "1">>, 1), Numeral(<<"0", "0", "0">>, 0)),
               <<"\n">>)

AnnotatedCueLine ==
    TimingLine(Stamp(Numeral(<<"0", "0">>, 0), Numeral(<<"0", "0">>, 0),
                     Numeral(<<"1", "0">>, 10), Numeral(<<"0", "0", "0">>, 0)),
               Stamp(Numeral(<<"0", "0">>, 0), Numeral(<<"0", "0">>, 0),
                     Numeral(<<"1", "2">>, 12), Numeral(<<"0", "0", "0">>, 0)),
               <<" ", "X", "\n">>)

UnterminatedCueLine ==
    TimingLine(Stamp(Numeral(<<"0", "0">>, 0), Numeral(<<"0", "0">>, 0),
                     Numeral(<<"1", "0">>, 10), Numeral(<<"0", "0", "0">>, 0)),
               Stamp(Numeral(<<"0", "0">>, 0), Numeral(<<"0", "0">>, 0),
                     Numeral(<<"1", "2">>, 12), Numeral(<<"0", "0", "0">>, 0)),
               <<>>)

UnnormalisedCueLine ==
    TimingLine(Stamp(Numeral(<<"0", "0">>, 0), Numeral(<<"9", "9">>, 99),
                     Numeral(<<"0", "0">>, 0), Numeral(<<"0", "0", "0">>, 0)),
               Stamp(Numeral(<<"0", "1">>, 1), Numeral(<<"0", "2">>, 2),
                     Numeral(<<"7", "5">>, 75), Numeral(<<"0", "0", "0">>, 0)),
               <<"\n">>)

LateCueLine ==
    TimingLine(Stamp(Numeral(<<"9", "9">>, 99), Numeral(<<"5", "9">>, 59),
                     Numeral(<<"5", "9">>, 59), Numeral(<<"0", "0", "0">>, 0)),
               Stamp(Numeral(<<"9", "9">>, 99), Numeral(<<"5", "9">>, 59),
                     Numeral(<<"5", "9">>, 59), Numeral(<<"9", "9", "9">>, 999)),
               <<"\n">>)

CarryCueLine ==
    TimingLine(Stamp(Numeral(<<"0", "0">>, 0), Numeral(<<"5", "9">>, 59),
                     Numeral(<<"5", "9">>, 59), Numeral(<<"9", "9", "9">>, 999)),
               Stamp(Numeral(<<"0", "1">>, 1), Numeral(<<"0", "0">>, 0),
                     Numeral(<<"0", "0">>, 0), Numeral(<<"0", "0", "0">>, 0)),
               <<"\n">>)

\* 00:00:10,000 --> 00:00:12,005 with the start in Arabic-Indic digits and
\* the last digit of the end a fullwidth five
ArabicIndicCueLine ==
    TimingLine(Stamp(Numeral(<<"\\u0660", "\\u0660">>, 0),
                     Numeral(<<"\\u0660", "\\u0660">>, 0),
                     Numeral(<<"\\u0661", "\\u0660">>, 10),
                     Numeral(<<"\\u0660", "\\u0660", "\\u0660">>, 0)),
               Stamp(Numeral(<<"0", "0">>, 0), Numeral(<<"0", "0">>, 0),
                     Numeral(<<"1", "2">>, 12),
                     Numeral(<<"0", "0", "\\uff15">>, 5)),
               <<"\n">>)

TextLine ==
    PlainLine(
        <<"H", "e", "l", "l", "o", " ", "w", "o", "r", "l", "d", "\n">>)

IndexLine ==
    PlainLine(
        <<"1", "\n">>)

NarrowFieldsLine ==
    PlainLine(
        <<"0", ":", "0", "0", ":", "1", "0", ",", "0", "0", "0", " ",
          "-", "-", ">", " ", "0", ":", "0", "0", ":", "1", "2", ",",
          "0", "0", "0", "\n">>)

IndentedCueLine ==
    PlainLine(
        <<" ", "0", "0", ":", "0", "0", ":", "1", "0", ",", "0", "0",
          "0", " ", "-", "-", ">", " ", "0", "0", ":", "0", "0", ":",
          "1", "2", ",", "0", "0", "0", "\n">>)

WideHoursLine ==
    PlainLine(
        <<"1", "0", "0", ":", "0", "0", ":", "0", "0", ",", "0", "0",
          "0", " ", "-", "-", ">", " ", "1", "0", "0", ":", "0", "0",
          ":", "0", "1", ",", "0", "0", "0", "\n">>)

ShortArrowLine ==
    PlainLine(
        <<"0", "0", ":", "0", "0", ":", "1", "0", ",", "0", "0", "0",
          " ", "-", ">", " ", "0", "0", ":", "0", "0", ":", "1", "2",
          ",", "0", "0", "0", "\n">>)

ShortMsLine ==
    PlainLine(
        <<"0", "0", ":", "0", "0", ":", "1", "0", ",", "0", "0", "0",
          " ", "-", "-", ">", " ", "0", "0", ":", "0", "0", ":", "1",
          "2", ",", "0", "0", "\n">>)

WideEndHoursLine ==
    PlainLine(
        <<"0", "0", ":", "0", "0", ":", "1", "0", ",", "0", "0", "0",
          " ", "-", "-", ">", " ", "1", "0", "0", ":", "0", "0", ":",
          "1", "2", ",", "0", "0", "0", "\n">>)

\* a cue line but for U+00B2, superscript two, which \d does not match
SuperscriptLine ==
    PlainLine(
        <<"0", "0", ":", "0", "0", ":", "1", "\\xb2", ",", "0", "0", "0",
          " ", "-", "-", ">", " ", "0", "0", ":", "0", "0", ":", "1",
          "2", ",", "0", "0", "0", "\n">>)

TimingLines ==
    { CueLine, ZeroCueLine, OneMsCueLine,
      AnnotatedCueLine, UnterminatedCueLine, UnnormalisedCueLine,
      LateCueLine, CarryCueLine, ArabicIndicCueLine }

PlainLines ==
    { TextLine, IndexLine, NarrowFieldsLine,
      IndentedCueLine, WideHoursLine, ShortArrowLine,
      ShortMsLine, WideEndHoursLine, SuperscriptLine }

Lines == TimingLines \cup PlainLines

\* the sequences of at most MaxLines elements of S
SeqsUpTo(S) == UNION { [1..n -> S] : n \in 0..MaxLines }

Texts(entries) == [i \in 1..Len(entries) |-> entries[i].text]

InitProcess ==
    /\ MainIdle
    /\ ret = Pending
    /\ prev = NoCall
    /\ \E entries \in SeqsUpTo(Lines), adjustment \in Adjustments :
          /\ given = entries
          /\ call = [fn |-> "process_srt_file",
                     lines |-> Texts(entries),
                     adjustment |-> adjustment]

ProcessSrtFileCall ==
    /\ call.fn = "process_srt_file"
    /\ ret = Pending
    /\ ret' = process_srt_file(call.lines, call.adjustment)
    /\ UNCHANGED <<mainVars, call, prev, given>>

\* the output of a completed first application becomes the input of a
\* second one, with the opposite adjustment
Reapply ==
    /\ call.fn = "process_srt_file"
    /\ prev = NoCall
    /\ ret.kind = "return"
    /\ prev' = call
    /\ call' = [fn |-> "process_srt_file",
                lines |-> ret.value,
                adjustment |-> 0 - call.adjustment]
    /\ ret' = Pending
    /\ UNCHANGED <<mainVars, given>>

NextProcess == ProcessSrtFileCall \/ Reapply

SpecProcess == InitProcess /\ [][NextProcess]_vars

FirstDone == call.fn = "process_srt_file" /\ prev = NoCall /\ ret # Pending

SecondDone == call.fn = "process_srt_file" /\ prev # NoCall /\ ret # Pending

\* C4: a line that does not start with the fixed-width timing pattern is
\* output equal to the input line, terminator included, for every
\* adjustment, and raises no error: a run that exits holds a timing line
\* with a time code the adjustment drives below zero.
C4_PlainLinesUnchanged ==
    FirstDone =>
        /\ (ret.kind = "return") =>
              /\ Len(ret.value) = Len(given)
              /\ \A i \in 1..Len(given) :
                    ~given[i].timing => ret.value[i] = given[i].text
        /\ (ret.kind # "return") =>
              \E i \in 1..Len(given) :
                 /\ given[i].timing
                 /\ \/ given[i].start + call.adjustment < 0
                    \/ given[i].end + call.adjustment < 0

\* a line with narrow fields and a cue line have been processed with an
\* adjustment of 2500 ms: the first is unchanged, the second is not
C4_Witness ==
    /\ FirstDone
    /\ call.adjustment = 2500
    /\ given = <<NarrowFieldsLine, CueLine>>
    /\ ret.kind = "return"
    /\ ret.value[1] = NarrowFieldsLine.text
    /\ ret.value[2] # CueLine.text

\* C5: a completed process_srt_file returns as many lines as it was given,
\* in the same order, leaves its input as given, and replaces every timing
\* line by the adjusted start, " --> ", the adjusted end and one newline,
\* whatever followed the second time code.
C5_OutputShape ==
    (FirstDone /\ ret.kind = "return") =>
        /\ Len(ret.value) = Len(given)
        /\ call.lines = Texts(given)
        /\ \A i \in 1..Len(given) :
              IF given[i].timing
              THEN ret.value[i] =
                      adjust_time_code(given[i].startText,
                                       call.adjustment).value
                        \o <<" ", "-", "-", ">", " ">>
                        \o adjust_time_code(given[i].endText,
                                            call.adjustment).value
                        \o <<"\n">>
              ELSE ret.value[i] = given[i].text

\* a cue line with a trailing annotation and one without a terminator have
\* been rewritten to the same adjusted line
C5_Witness ==
    /\ FirstDone
    /\ call.adjustment = 2500
    /\ given = <<AnnotatedCueLine, UnterminatedCueLine>>
    /\ ret.kind = "return"
    /\ ret.value[1] = ret.value[2]
    /\ Len(ret.value[1]) = 30

\* C10: the only exit process_srt_file ends in is the negative-result
\* exit: every time code captured by the fixed-width pattern satisfies the
\* four-field pattern of adjust_time_code.
C10_OnlyNegativeExit ==
    (call.fn = "process_srt_file") =>
        /\ \A i \in 1..Len(call.lines) :
              PatternMatches(call.lines[i]) =>
                 /\ TimeCodeMatch(StartGroup(call.lines[i])).ok
                 /\ TimeCodeMatch(EndGroup(call.lines[i])).ok
        /\ (ret # Pending /\ ret.kind # "return") =>
              ret = [kind |-> "exit", value |-> NegativeTimeMessage]

\* a run has exited on its second line, after a line that passed through
C10_Witness ==
    /\ FirstDone
    /\ Len(given) = 2
    /\ ~given[1].timing
    /\ given[2].timing
    /\ ret = [kind |-> "exit", value |-> NegativeTimeMessage]

\* C3 as stated: with an adjustment of 0 process_srt_file never fails,
\* every timing line keeps its two time codes character for character and
\* every other line is output unchanged.
C3_Original ==
    (FirstDone /\ call.adjustment = 0) =>
        /\ ret.kind = "return"
        /\ Len(ret.value) = Len(given)
        /\ \A i \in 1..Len(given) :
              IF given[i].timing
              THEN /\ Len(ret.value[i]) >= 29
                   /\ SubSeq(ret.value[i], 1, 12) = given[i].startText
                   /\ SubSeq(ret.value[i], 18, 29) = given[i].endText
              ELSE ret.value[i] = given[i].text

\* C3 (amended): with an adjustment of 0 process_srt_file never fails,
\* every timing line written in the digits "0".."9" whose minute and second
\* fields are at most 59 keeps its two time codes character for character,
\* and every line that is no timing line is output unchanged.
C3_IdentityCanonical ==
    (FirstDone /\ call.adjustment = 0) =>
        /\ ret.kind = "return"
        /\ Len(ret.value) = Len(given)
        /\ \A i \in 1..Len(given) :
              /\ (given[i].timing /\ given[i].ascii /\ given[i].canonical) =>
                    /\ Len(ret.value[i]) >= 29
                    /\ SubSeq(ret.value[i], 1, 12) = given[i].startText
                    /\ SubSeq(ret.value[i], 18, 29) = given[i].endText
              /\ ~given[i].timing => ret.value[i] = given[i].text

\* a canonical cue line and a text line have been processed with an
\* adjustment of 0 and both are output as given
C3_Witness ==
    /\ FirstDone
    /\ call.adjustment = 0
    /\ given = <<OneMsCueLine, TextLine>>
    /\ ret = [kind |-> "return", value |-> Texts(given)]

\* C2 as stated: when process_srt_file completes with +X and is applied to
\* its output with -X, every timing line of the result equals the original
\* timing line.
C2_Original ==
    SecondDone =>
        /\ ret.kind = "return"
        /\ Len(ret.value) = Len(given)
        /\ \A i \in 1..Len(given) :
              given[i].timing => ret.value[i] = given[i].text

\* C2 (amended): when process_srt_file completes with +X and is applied to
\* its output with -X, the second application completes too, and the
\* result equals the original for every timing line that is written in the
\* digits "0".."9", has minute and second fields of at most 59, nothing but
\* one newline after its second time code, and both time codes below 100
\* hours after the shift by +X.
C2_InverseCanonical ==
    SecondDone =>
        /\ ret.kind = "return"
        /\ Len(ret.value) = Len(given)
        /\ \A i \in 1..Len(given) :
              ( /\ given[i].timing
                /\ given[i].ascii
                /\ given[i].canonical
                /\ given[i].bare
                /\ given[i].start + prev.adjustment < 360000000
                /\ given[i].end + prev.adjustment < 360000000 )
              => ret.value[i] = given[i].text

\* a cue line shifted by +2500 ms and back by -2500 ms is the original
\* again, and in between it was not
C2_Witness ==
    /\ SecondDone
    /\ prev.adjustment = 2500
    /\ given = <<CueLine>>
    /\ call.lines # Texts(given)
    /\ ret = [kind |-> "return", value |-> Texts(given)]

----------------------------------------------------------------------------
(* main                                                                    *)

InPath == "in.srt"

OutPath == "out.srt"

Paths == {InPath, OutPath}

\* What a path names.  A file of UTF-8 text that may be read and written,
\* held as the lines readlines() yields from it and writelines() stores in
\* it
File(lines) == [status |-> "file", lines |-> lines]

\* a file of UTF-8 text that may be read and not written
ReadOnly(lines) == [status |-> "readonly", lines |-> lines]

\* a file whose bytes are no UTF-8 text, which may be read and written
Undecodable == [status |-> "undecodable", lines |-> <<>>]

\* a file that may be neither read nor written
Unreadable == [status |-> "unreadable", lines |-> <<>>]

Directory == [status |-> "directory", lines |-> <<>>]

\* a path through a file that is no directory, as f/out.srt with f a file
NotADirectory == [status |-> "notadirectory", lines |-> <<>>]

\* a name longer than the file system takes
NameTooLong == [status |-> "nametoolong", lines |-> <<>>]

\* nothing, in a directory where a file may be created
Missing == [status |-> "missing", lines |-> <<>>]

\* nothing, in a directory where no file may be created
Uncreatable == [status |-> "uncreatable", lines |-> <<>>]

\* nothing, and no such directory
NoDirectory == [status |-> "nodirectory", lines |-> <<>>]

\* a device that reads as empty and keeps nothing written to it (/dev/null)
Device == [status |-> "device", lines |-> <<>>]

\* the output path as a hard or symbolic link to the input file
Link == [status |-> "link", lines |-> <<>>]

\* the path whose entry holds the file a path names
Target(files, file_path) ==
    IF files[file_path].status = "link" THEN InPath ELSE file_path

\* sys.stdout: a stream that takes the message; None, the descriptor being
\* closed; a full device or a pipe nobody reads, behind a buffer, where the
\* flush at exit fails; the same without a buffer, where print itself fails
Stdouts ==
    {"open", "closed", "full", "full unbuffered", "broken",
     "broken unbuffered"}

\* lines as readlines() yields them: each ends with its newline; the
\* e-acute of the last is two bytes of UTF-8
AccentedLine == PlainLine(<<"c", "a", "f", "\\xe9", "\n">>)

MainLines ==
    { CueLine, ZeroCueLine, TextLine, ArabicIndicCueLine, AccentedLine }

Offset(text, wellformed) == [text |-> text, wellformed |-> wellformed]

\* values of -t: A00:00:02,500, D5, 2:30, D00:00:00,001, 0, D5 with an
\* Arabic-Indic five, and three that are malformed
MainOffsets ==
    { Offset(<<"A", "0", "0", ":", "0", "0", ":", "0", "2", ",",
               "5", "0", "0">>, TRUE),
      Offset(<<"D", "5">>, TRUE),
      Offset(<<"2", ":", "3", "0">>, TRUE),
      Offset(<<"D", "0", "0", ":", "0", "0", ":", "0", "0", ",",
               "0", "0", "1">>, TRUE),
      Offset(<<"0">>, TRUE),
      Offset(<<"D", "\\u0665">>, TRUE),
      Offset(<<"x">>, FALSE),
      Offset(<<>>, FALSE),
      Offset(<<"1", ":", "2", ":", "3", ":", "4">>, FALSE) }

\* what the input path may name
MainInputs ==
    { File(Texts(entries)) : entries \in SeqsUpTo(MainLines) }
       \cup { ReadOnly(<<CueLine.text>>), Undecodable, Unreadable, Directory,
              NotADirectory, NameTooLong, Missing, NoDirectory, Device }

\* what the other path may name: anything when -o names it, and nothing,
\* a file or a link to the input file when the input path is the output
MainOthers(output) ==
    IF output = ""
    THEN { Missing, File(<<TextLine.text>>), Link }
    ELSE { Missing, File(<<TextLine.text>>), ReadOnly(<<TextLine.text>>),
           Undecodable, Directory, NotADirectory, NameTooLong, Uncreatable,
           NoDirectory, Device, Link }

\* the state after parse_args() has returned; -o absent (None) and -o ''
\* are both false at line 127 and are both the empty string here
Init ==
    /\ CallIdle
    /\ pc = "calculate_adjustment_milliseconds"
    /\ adjustment_ms = 0
    /\ srt_content = <<>>
    /\ adjusted_srt_content = <<>>
    /\ output_file = ""
    /\ outcome = Pending
    /\ trace = <<>>
    /\ stdout \in Stdouts
    /\ \E offset \in MainOffsets, output \in {"", OutPath},
          input \in MainInputs :
       \E other \in MainOthers(output) :
          /\ args = [file |-> InPath, time |-> offset.text, output |-> output]
          /\ fs = [path \in Paths |-> IF path = InPath THEN input ELSE other]
          /\ given = [fs |-> fs, wellformed |-> offset.wellformed]

FileNotFoundMessage(file_path) ==
    <<"Error: The file ", file_path, " was not found.">>

CouldNotReadMessage(file_path) ==
    <<"Error: Could not read file ", file_path, ".">>

SavedMessage(file_path) ==
    <<"Subtitle timings adjusted and saved to '", file_path, "'.">>

\* an exception no except clause catches: a traceback and status 1
Uncaught(exception) == [kind |-> "raise", value |-> exception]

\* what open() and readlines() of lines 25-26 do with what the path names
ReadOf(entry, file_path) ==
    IF entry.status \in {"missing", "uncreatable", "nodirectory"}
    THEN [kind |-> "exit", value |-> FileNotFoundMessage(file_path)]
    ELSE IF entry.status \in {"unreadable", "directory", "notadirectory",
                              "nametoolong"}
    THEN [kind |-> "exit", value |-> CouldNotReadMessage(file_path)]
    ELSE IF entry.status = "undecodable"
    THEN Uncaught("UnicodeDecodeError")
    ELSE [kind |-> "return", value |-> entry.lines]

\* read_srt_file: the lines of the file; the exit of the except clause for
\* FileNotFoundError; the exit of the except clause for every other OSError;
\* or the UnicodeDecodeError of readlines(), a ValueError that neither
\* clause catches
read_srt_file(file_path) == ReadOf(fs[Target(fs, file_path)], file_path)

\* what open(file_path, 'w') of line 37 does with what the path names: the
\* file is there and empty, or an OSError that nothing catches ("OSError":
\* one of no subclass)
OpenOf(entry) ==
    IF entry.status = "directory"
    THEN Uncaught("IsADirectoryError")
    ELSE IF entry.status = "notadirectory"
    THEN Uncaught("NotADirectoryError")
    ELSE IF entry.status \in {"readonly", "unreadable", "uncreatable"}
    THEN Uncaught("PermissionError")
    ELSE IF entry.status = "nodirectory"
    THEN Uncaught("FileNotFoundError")
    ELSE IF entry.status = "nametoolong"
    THEN Uncaught("OSError")
    ELSE [kind |-> "return", value |-> File(<<>>)]

open_for_writing(file_path) == OpenOf(fs[Target(fs, file_path)])

\* the files once the file a path names holds an entry: every name of the
\* file shows it, and a device keeps nothing
Stored(files, file_path, entry) ==
    IF files[Target(files, file_path)].status = "device"
    THEN files
    ELSE [files EXCEPT ![Target(files, file_path)] = entry]

\* the characters of a sequence of lines
RECURSIVE Flat(_)
Flat(lines) ==
    IF Len(lines) = 0 THEN <<>> ELSE Head(lines) \o Flat(Tail(lines))

\* the first k characters of a sequence of lines, as lines
RECURSIVE Truncated(_, _)
Truncated(lines, k) ==
    IF Len(lines) = 0 \/ k = 0 THEN <<>>
    ELSE IF k >= Len(Head(lines))
    THEN <<Head(lines)>> \o Truncated(Tail(lines), k - Len(Head(lines)))
    ELSE <<SubSeq(Head(lines), 1, k)>>

\* a character that is more than one byte of UTF-8: none of ASCII
MultiByte(c) == Len(c) > 1

\* what the file may hold when the write of the lines has stopped: the
\* first k characters, or, cut inside a character of several bytes, bytes
\* that are no UTF-8 text
Partial(lines) ==
    { File(Truncated(lines, k)) : k \in 0..Len(Flat(lines)) }
       \cup { Undecodable : k \in { i \in 1..Len(Flat(lines)) :
                                      MultiByte(Flat(lines)[i]) } }

\* line 124: adjustment_ms = calculate_adjustment_milliseconds(args.time);
\* a ValueError is not caught and ends the process
CalculateAdjustment ==
    /\ pc = "calculate_adjustment_milliseconds"
    /\ trace' = Append(trace, "calculate_adjustment_milliseconds")
    /\ LET r == calculate_adjustment_milliseconds(args.time)
       IN  IF r.kind = "return"
           THEN /\ adjustment_ms' = r.value
                /\ pc' = "read_srt_file"
                /\ UNCHANGED outcome
           ELSE /\ outcome' = r
                /\ pc' = "terminated"
                /\ UNCHANGED adjustment_ms
    /\ UNCHANGED <<args, stdout, fs, srt_content, adjusted_srt_content,
                   output_file, callVars, given>>

\* line 125: srt_content = read_srt_file(args.file)
ReadSrtFile ==
    /\ pc = "read_srt_file"
    /\ trace' = Append(trace, "read_srt_file")
    /\ LET r == read_srt_file(args.file)
       IN  IF r.kind = "return"
           THEN /\ srt_content' = r.value
                /\ pc' = "process_srt_file"
                /\ UNCHANGED outcome
           ELSE /\ outcome' = r
                /\ pc' = "terminated"
                /\ UNCHANGED srt_content
    /\ UNCHANGED <<args, stdout, fs, adjustment_ms, adjusted_srt_content,
                   output_file, callVars, given>>

\* the path line 127 chooses
OutputPath == IF args.output # "" THEN args.output ELSE args.file

\* line 126 with the output file opened for writing before the lines are
\* processed
ProcessSrtFileOutputOpened ==
    /\ pc = "process_srt_file"
    /\ trace' = Append(trace, "process_srt_file")
    /\ fs' = [fs EXCEPT ![OutputPath] = File(<<>>)]
    /\ LET r == process_srt_file(srt_content, adjustment_ms)
       IN  IF r.kind = "return"
           THEN /\ adjusted_srt_content' = r.value
                /\ pc' = "write_srt_file"
                /\ UNCHANGED outcome
           ELSE /\ outcome' = r
                /\ pc' = "terminated"
                /\ UNCHANGED adjusted_srt_content
    /\ UNCHANGED <<args, stdout, adjustment_ms, srt_content, output_file,
                   callVars, given>>

\* line 126: adjusted_srt_content = process_srt_file(srt_content,
\* adjustment_ms)
ProcessSrtFile ==
    /\ pc = "process_srt_file"
    /\ trace' = Append(trace, "process_srt_file")
    /\ LET r == process_srt_file(srt_content, adjustment_ms)
       IN  IF r.kind = "return"
           THEN /\ adjusted_srt_content' = r.value
                /\ pc' = "write_srt_file"
                /\ UNCHANGED outcome
           ELSE /\ outcome' = r
                /\ pc' = "terminated"
                /\ UNCHANGED adjusted_srt_content
    /\ UNCHANGED <<args, stdout, fs, adjustment_ms, srt_content, output_file,
                   callVars, given>>

\* lines 127-128 and 37: output_file = args.output if args.output else
\* args.file; write_srt_file(output_file, adjusted_srt_content) is called
\* and opens the file for writing, which empties it; an OSError of open is
\* not caught and ends the process with the files as they were
WriteSrtFile ==
    /\ pc = "write_srt_file"
    /\ trace' = Append(trace, "write_srt_file")
    /\ output_file' = OutputPath
    /\ LET r == open_for_writing(OutputPath)
       IN  IF r.kind = "return"
           THEN /\ fs' = Stored(fs, OutputPath, r.value)
                /\ pc' = "writelines"
                /\ UNCHANGED outcome
           ELSE /\ outcome' = r
                /\ pc' = "terminated"
                /\ UNCHANGED fs
    /\ UNCHANGED <<args, stdout, adjustment_ms, srt_content,
                   adjusted_srt_content, callVars, given>>

\* line 38 and the close of the with block: the lines are written, or the
\* write stops with an OSError (no space, a size limit, a device error) that
\* nothing catches, after any number of bytes
WriteLines ==
    /\ pc = "writelines"
    /\ \/ /\ fs' = Stored(fs, output_file, File(adjusted_srt_content))
          /\ pc' = "print"
          /\ UNCHANGED outcome
       \/ \E partial \in Partial(adjusted_srt_content) :
             /\ fs' = Stored(fs, output_file, partial)
             /\ outcome' = Uncaught("OSError")
             /\ pc' = "terminated"
    /\ UNCHANGED <<args, stdout, adjustment_ms, srt_content,
                   adjusted_srt_content, output_file, trace, callVars, given>>

\* the OSError a write to stdout ends in
StdoutError ==
    IF stdout \in {"broken", "broken unbuffered"}
    THEN "BrokenPipeError" ELSE "OSError"

\* how the process ends once print has been called with what stdout is: the
\* message is out and the status is 0; nothing is printed and the status is
\* 0; the flush at exit fails and the status is 120; print raises an OSError
\* that nothing catches
Printed(message) ==
    IF stdout = "open" THEN [kind |-> "return", value |-> message]
    ELSE IF stdout = "closed" THEN [kind |-> "return", value |-> <<>>]
    ELSE IF stdout \in {"full", "broken"}
    THEN [kind |-> "unflushed", value |-> StdoutError]
    ELSE Uncaught(StdoutError)

\* line 129: the confirmation, and the end of the process
PrintConfirmation ==
    /\ pc = "print"
    /\ trace' = Append(trace, "print")
    /\ outcome' = Printed(SavedMessage(output_file))
    /\ pc' = "terminated"
    /\ UNCHANGED <<args, stdout, fs, adjustment_ms, srt_content,
                   adjusted_srt_content, output_file, callVars, given>>

Next ==
    \/ CalculateAdjustment
    \/ ReadSrtFile
    \/ ProcessSrtFile
    \/ WriteSrtFile
    \/ WriteLines
    \/ PrintConfirmation

Spec == Init /\ [][Next]_vars

IsPrefix(s, t) == Len(s) <= Len(t) /\ s = SubSeq(t, 1, Len(s))

Count(s, x) == Cardinality({ i \in 1..Len(s) : s[i] = x })

Fatal == pc = "terminated" /\ outcome.kind \in {"exit", "raise"}

\* the run has ended in one of the fatal errors of the claim: a malformed
\* offset, an input file that is missing or cannot be read, or a time code
\* driven below zero
FatalBeforeWrite ==
    /\ Fatal
    /\ \/ ~given.wellformed
       \/ given.fs[args.file].status \notin {"file", "readonly", "device"}
       \/ /\ outcome.kind = "exit"
          /\ outcome.value = NegativeTimeMessage

\* C8: write_srt_file is called at most once, and only after the whole
\* input has been read and every line transformed without error; until it
\* is called the files are as they were at the start; and in every run that
\* ends in a fatal error (malformed offset, missing or unreadable input
\* file, negative result on any timing line) it is not called, so the files
\* are as they were, also when the output path is the input path.
C8_WriteLastOrNever ==
    /\ Count(trace, "write_srt_file") <= 1
    /\ Count(trace, "write_srt_file") = 1 =>
          /\ IsPrefix(<<"calculate_adjustment_milliseconds", "read_srt_file",
                        "process_srt_file", "write_srt_file">>, trace)
          /\ srt_content = given.fs[args.file].lines
          /\ Len(adjusted_srt_content) = Len(srt_content)
    /\ Count(trace, "write_srt_file") = 0 => fs = given.fs
    /\ FatalBeforeWrite =>
          Count(trace, "write_srt_file") = 0 /\ fs = given.fs

\* a run that overwrites its input has ended in the negative-result exit
\* on the second line of the file, and the file is as it was
C8_Witness ==
    /\ Fatal
    /\ outcome = [kind |-> "exit", value |-> NegativeTimeMessage]
    /\ args.output = ""
    /\ srt_content = <<CueLine.text, ZeroCueLine.text>>
    /\ fs = given.fs

\* C9: the input file is read, then the offset is converted once, then the
\* lines are transformed, then the result is written; a run with a missing
\* input file and a malformed offset ends in the file access error.
C9_Original ==
    /\ IsPrefix(trace, <<"read_srt_file", "calculate_adjustment_milliseconds",
                         "process_srt_file", "write_srt_file", "print">>)
    /\ ( /\ pc = "terminated"
         /\ given.fs[args.file].status = "missing"
         /\ ~given.wellformed )
       => outcome = [kind |-> "exit",
                     value |-> FileNotFoundMessage(args.file)]

====
